---------------------------- MODULE Spec2Model ----------------------------
(***************************************************************************)
(* A model of the aiosaber operator catalog (src/aiosaber/operators.py).   *)
(*                                                                         *)
(* One behaviour of the model is one activation of one stage: Init picks   *)
(* the operator, its constructor arguments, the contents of its input      *)
(* queues and the interceptors configured when it is built; the actions    *)
(* are the iterations of the stage's handle_stream loop (and, for Mix, the *)
(* steps of its concurrent queue pumps), preceded for some stages by a     *)
(* change of the configuration and the start.                              *)
(*                                                                         *)
(* Values on an edge are wrapped: a real item x travels as Item(x) = <<x>> *)
(* and the completion marker is END = <<>>, so END differs from every      *)
(* payload whatever the payload's type is.                                 *)
(***************************************************************************)
EXTENDS Integers, Sequences, FiniteSets, Bags, TLC

(***************************************************************************)
(* Bounds of the model.                                                    *)
(***************************************************************************)
\* Largest number of real items queued for one stage (over all its queues).
MaxLen == 3
\* Payloads are the integers 1..MaxItem.
MaxItem == 2
\* Number of input queues of a multi-source stage (Mix, Concat).
MaxSrc == 2
\* Largest number of output channels of a Branch stage.
MaxOut == 2
\* Largest number of nodes (leaves and sequences) in the items queued for Flatten.
MaxNodes == 4
\* Largest max_level given to Flatten.
MaxLevel == 2

(***************************************************************************)
(* Values.                                                                 *)
(***************************************************************************)
END == <<>>
Item(x) == <<x>>
Val(d) == d[1]

\* Reduce.NOTSET / Last.NOTSET / Distinct's initial prev: a fresh object(),
\* equal to no payload.
NOTSET == -1
POS_INF == 1000
NEG_INF == -1000

Payloads == 1..MaxItem

\* The nested payloads Flatten is fed: a number, a string, or a sequence
\* (list, tuple) of nested payloads.
Number(n) == [kind |-> "int", v |-> n, items |-> <<>>]
String == [kind |-> "str", v |-> 0, items |-> <<>>]
Sequence(members) == [kind |-> "seq", v |-> 0, items |-> members]

\* The payloads of exactly n nodes, and the sequences of payloads that have n
\* nodes together; the leaves are one number and one string.
RECURSIVE NestedOf(_), NestedSeqsOf(_)
NestedOf(n) ==
    (IF n = 1 THEN {Number(1), String} ELSE {})
    \cup {Sequence(members) : members \in NestedSeqsOf(n - 1)}
NestedSeqsOf(n) ==
    IF n = 0 THEN {<<>>}
    ELSE UNION {{<<first>> \o rest : first \in NestedOf(k), rest \in NestedSeqsOf(n - k)} :
                   k \in 1..n}

RECURSIVE SeqsUpTo(_, _)
SeqsUpTo(S, n) ==
    IF n = 0 THEN {<<>>}
    ELSE LET shorter == SeqsUpTo(S, n - 1)
         IN shorter \cup {Append(s, x) : s \in {t \in shorter : Len(t) = n - 1}, x \in S}

RECURSIVE SumLens(_, _)
SumLens(qs, n) == IF n = 0 THEN 0 ELSE Len(qs[n]) + SumLens(qs, n - 1)

RECURSIVE SeqSum(_)
SeqSum(s) == IF s = <<>> THEN 0 ELSE Head(s) + SeqSum(Tail(s))

RECURSIVE FlatSeq(_)
FlatSeq(ss) == IF ss = <<>> THEN <<>> ELSE Head(ss) \o FlatSeq(Tail(ss))

RECURSIVE SeqToBag(_)
SeqToBag(s) == IF s = <<>> THEN EmptyBag ELSE SetToBag({Head(s)}) (+) SeqToBag(Tail(s))

MinOf(a, b) == IF a <= b THEN a ELSE b
MaxOf(a, b) == IF a >= b THEN a ELSE b


(***************************************************************************)
(* State.                                                                  *)
(***************************************************************************)
VARIABLES
    op,       \* the operator class of the stage
    self,     \* the stage's instance fields (constructor arguments, private state)
    queues,   \* consumer.queues: the real items each input queue will deliver
    rd,       \* per queue, how many reads (real items, then END) it has served
    fails,    \* per queue, whether reading past its last item raises instead of END
    isConst,  \* per queue, whether q.ch is a ConstantChannel
    out,      \* per output channel, everything put on it so far, in order
    pc,       \* where the stage is: "built", "start", "run", "wait", "done", "failed"
    err,      \* the exception handle_stream raised ("" while none)
    frame,    \* locals of an overriding handle_stream (cur, values, current queue)
    tasks,    \* Mix: the pump_queue tasks (state, item in hand)
    context,  \* context.context: the process-wide configuration (interceptor lists, client)
    com       \* the stage as a component: the interceptors it was built with, its context

vars == <<op, self, queues, rd, fails, isConst, out, pc, err, frame, tasks, context, com>>

(***************************************************************************)
(* Channel / queue contract (aiosaber.channel, aiosaber.task: consumed).   *)
(***************************************************************************)
\* What the next read of queue q returns: its next real item, then END for ever.
Get(q) == IF rd[q] < Len(queues[q]) THEN Item(queues[q][rd[q] + 1]) ELSE END

\* The read cursor after one more read of queue q.
Advance(q) == [rd EXCEPT ![q] = MinOf(@ + 1, Len(queues[q]) + 1)]

\* One call of put: put(data) broadcasts, put(data, index) addresses one channel.
\* raw tells whether the call went to self.put rather than to the put handed in.
P(d) == [data |-> d, all |-> TRUE, index |-> 0, raw |-> FALSE]
PAt(d, i) == [data |-> d, all |-> FALSE, index |-> i, raw |-> FALSE]
PRaw(d) == [data |-> d, all |-> TRUE, index |-> 0, raw |-> TRUE]

\* The channel a Python index selects among n outputs (negative counts from the end).
ChannelOf(index, n) == IF index >= 0 THEN index + 1 ELSE n + index + 1

PutOne(o, p) ==
    IF p.all THEN [e \in DOMAIN o |-> Append(o[e], p.data)]
    ELSE [o EXCEPT ![ChannelOf(p.index, Len(o))] = Append(@, p.data)]

RECURSIVE PutAll(_, _)
PutAll(o, ps) == IF ps = <<>> THEN o ELSE PutAll(PutOne(o, Head(ps)), Tail(ps))

\* What one activation of handle did: new fields, the puts in order, the value
\* returned and the exception raised ("" when none).
Ret(s, ps, r) == [self |-> s, puts |-> ps, ret |-> r, err |-> ""]
Raise(s, e) == [self |-> s, puts |-> <<>>, ret |-> "None", err |-> e]

(***************************************************************************)
(* Middleware (aiosaber.middleware, aiosaber.context: consumed; the        *)
(* interceptors are those of tests/test_middleware.py).  The process-wide  *)
(* configuration holds one list of interceptors per kind; a stage keeps    *)
(* the lists it was built with.                                            *)
(***************************************************************************)
Range(s) == {s[i] : i \in 1..Len(s)}

NoInterceptors == [builders |-> <<>>, executors |-> <<>>, handlers |-> <<>>]
TestInterceptors == [builders |-> <<"NameBuilder">>,
                     executors |-> <<"ClientProvider">>,
                     handlers |-> <<"Filter">>]
Configs == {NoInterceptors, TestInterceptors}

\* context.context holding the lists of c and no client yet.
Configured(c) == [builders |-> c.builders, executors |-> c.executors,
                  handlers |-> c.handlers, client |-> FALSE]

\* Construction of a stage under the configuration ctx: the lists are read,
\* and the build interceptors run at once (NameBuilder sets com.context['name']).
Construct(ctx) == [builders |-> ctx.builders, executors |-> ctx.executors,
                   handlers |-> ctx.handlers,
                   name |-> "NameBuilder" \in Range(ctx.builders)]

\* Mutant: the item interceptors are looked up in the configuration at each call.
Handlers_of_the_moment == context.handlers

\* The item interceptors that wrap the stage's handle.
Handlers == com.handlers

\* Filter.__call__ of the test hands on filter_put: END and the items above 3
\* are passed to the put it wraps, everything else is dropped.
FilterAbove == 3
filter_put(p) == p.data = END \/ Val(p.data) > FilterAbove

\* What reaches the stage's put of the puts an activation made: a call of
\* self.put goes there directly, a call of the put handed in goes through the
\* adapted put of every item interceptor.
Through(puts) ==
    IF Handlers = <<>> THEN puts
    ELSE SelectSeq(puts, LAMBDA p : p.raw \/ "Filter" \notin Range(Handlers)
                                          \/ filter_put(p))

\* BaseTask.handle, inherited by the stages that only override handle_stream:
\* pass what was read on to every output.
BaseTask_handle(s, data) == Ret(s, <<P(data)>>, "None")

(***************************************************************************)
(* User callables, drawn from small sets.                                  *)
(***************************************************************************)
\* Predicates for Filter / Until: by is a callable, or a value compared with ==.
Pred(f, x) ==
    CASE f = "truthy" -> x # 0
      [] f = "even" -> x % 2 = 0
      [] f = "ge2" -> x >= 2
      [] OTHER -> FALSE

By(by, x) == IF by.callable THEN Pred(by.f, x) ELSE x = by.value

Bys == {[callable |-> TRUE, f |-> f, value |-> 0] : f \in {"truthy", "even", "ge2"}}
       \cup {[callable |-> FALSE, f |-> "", value |-> v] : v \in Payloads}

\* Fold functions for Reduce: the value fn(acc, x), or the exception it raises.
\* "sum" is the builtin sum(iterable, start), which Sum passes as by.
Fold(fn, acc, x) ==
    CASE fn = "second" -> [err |-> "", v |-> x]
      [] fn = "add" -> IF acc = NOTSET THEN [err |-> "TypeError", v |-> 0]
                       ELSE [err |-> "", v |-> acc + x]
      [] fn = "count" -> IF acc = NOTSET THEN [err |-> "TypeError", v |-> 0]
                         ELSE [err |-> "", v |-> acc + 1]
      [] fn = "min" -> IF acc = NOTSET THEN [err |-> "TypeError", v |-> 0]
                       ELSE [err |-> "", v |-> MinOf(acc, x)]
      [] fn = "max" -> IF acc = NOTSET THEN [err |-> "TypeError", v |-> 0]
                       ELSE [err |-> "", v |-> MaxOf(acc, x)]
      [] fn = "sum" -> [err |-> "TypeError", v |-> 0]
      [] OTHER -> [err |-> "TypeError", v |-> 0]

\* Key / index functions for Group and Branch, and the map function of Map.
Key(f, x) ==
    CASE f = "mod2" -> x % 2
      [] f = "minus2" -> x - 2
      [] OTHER -> x
MapFn(f, x) == IF f = "double" THEN x + x ELSE x

(***************************************************************************)
(* handle(get, put) of the operators that keep the default handle_stream.  *)
(* Each is given the fields s and the value data its get() returns.        *)
(***************************************************************************)
\* data[self.key]: the payloads of the model are numbers, which have no
\* __getitem__, so the lookup raises TypeError.
GetItem_lookup(x, key) == [err |-> "TypeError", v |-> 0]

GetItem_handle(s, data) ==
    IF data = END THEN Ret(s, <<P(END)>>, "None")
    ELSE LET got == GetItem_lookup(Val(data), s.key)
         IN IF got.err \in {"TypeError", "KeyError", "IndexError"}
            THEN Ret(s, <<P(Item(s.default))>>, "None")
            ELSE Ret(s, <<P(Item(got.v))>>, "None")

Branch_handle(s, data) ==
    IF data = END THEN Ret(s, <<P(END)>>, "None")
    ELSE LET chosen_index == Key(s.fn, Val(data))
         IN IF chosen_index >= s.num_out THEN Raise(s, "RuntimeError")
            ELSE Ret(s, <<PAt(data, chosen_index)>>, "None")

Subscribe_handle(s, data) ==
    LET c1 == IF data = END /\ s.on_complete
              THEN Append(s.calls, <<"on_complete">>) ELSE s.calls
        c2 == IF data # END /\ s.on_next
              THEN Append(c1, <<"on_next", Val(data)>>) ELSE c1
    IN Ret([s EXCEPT !.calls = c2], <<P(data)>>, "None")

Map_handle(s, data) ==
    IF data # END THEN Ret(s, <<P(Item(MapFn(s.fn, Val(data))))>>, "None")
    ELSE Ret(s, <<P(data)>>, "None")

Reduce_handle(s, data) ==
    IF data # END
    THEN LET result == Fold(s.fn, s.result, Val(data))
         IN IF result.err # "" THEN Raise(s, result.err)
            ELSE Ret([s EXCEPT !.prev_result = s.result, !.result = result.v],
                     <<>>, "None")
    ELSE Ret([s EXCEPT !.result = NOTSET],
             IF s.prev_result # NOTSET THEN <<P(Item(s.result))>> ELSE <<>>,
             "None")

\* traverse(items, level) of Flatten.handle, as the list of what it appends to
\* flattened_items: a TypeError raised in a call is caught in that same call.
RECURSIVE traverse(_, _, _)
traverse(items, level, max_level) ==
    IF level >= max_level + 1 THEN <<items>>
    ELSE IF items.kind = "seq"
         THEN FlatSeq([i \in 1..Len(items.items) |->
                          traverse(items.items[i], level + 1, max_level)])
         ELSE <<items>>

\* Mutant: the traversal starts one level too deep.
Flatten_traverse_from_level_2(x, max_level) == traverse(x, 2, max_level)

\* traverse(data, 1)
Flatten_traverse(x, max_level) == traverse(x, 1, max_level)

Flatten_handle(s, data) ==
    IF data = END THEN Ret(s, <<P(END)>>, "None")
    ELSE LET flattened_items == Flatten_traverse(Val(data), s.max_level)
         IN Ret(s, [i \in 1..Len(flattened_items) |-> P(Item(flattened_items[i]))],
                "None")

\* self.groups is an insertion-ordered mapping: a sequence of [key, items].
GroupIndex(groups, key) ==
    IF \E i \in 1..Len(groups) : groups[i].key = key
    THEN CHOOSE i \in 1..Len(groups) : groups[i].key = key
    ELSE 0

RemoveAt(seq, i) == [j \in 1..(Len(seq) - 1) |-> IF j < i THEN seq[j] ELSE seq[j + 1]]

\* Mutant: the bucket is not deleted after it was emitted.
Group_handle_keeps_bucket(s, data) ==
    IF data # END
    THEN LET key == Key(s.key_fn, Val(data))
             at == GroupIndex(s.groups, key)
             had == IF at = 0 THEN Append(s.groups, [key |-> key, items |-> <<>>])
                    ELSE s.groups
             i == IF at = 0 THEN Len(had) ELSE at
             group == Append(had[i].items, Val(data))
         IN Ret([s EXCEPT !.groups = [had EXCEPT ![i].items = group]],
                IF Len(group) >= s.group_size THEN <<P(Item(<<key, group>>))>>
                ELSE <<>>, "None")
    ELSE IF s.keep_rest
         THEN Ret([s EXCEPT !.groups = <<>>],
                  [i \in 1..Len(s.groups) |->
                      PRaw(Item(<<s.groups[i].key, s.groups[i].items>>))],
                  "None")
         ELSE Ret(s, <<>>, "None")

Group_handle(s, data) ==
    IF data # END
    THEN LET key == Key(s.key_fn, Val(data))
             at == GroupIndex(s.groups, key)
             had == IF at = 0 THEN Append(s.groups, [key |-> key, items |-> <<>>])
                    ELSE s.groups
             i == IF at = 0 THEN Len(had) ELSE at
             group == Append(had[i].items, Val(data))
         IN IF Len(group) >= s.group_size
            THEN Ret([s EXCEPT !.groups = RemoveAt(had, i)],
                     <<P(Item(<<key, group>>))>>, "None")
            ELSE Ret([s EXCEPT !.groups = [had EXCEPT ![i].items = group]],
                     <<>>, "None")
    ELSE IF s.keep_rest
         THEN Ret([s EXCEPT !.groups = <<>>],
                  [i \in 1..Len(s.groups) |->
                      PRaw(Item(<<s.groups[i].key, s.groups[i].items>>))],
                  "None")
         ELSE Ret(s, <<>>, "None")

\* Mutant: the return of END after the last item forgotten.
Take_handle_no_return(s, data) ==
    IF data # END /\ s.num > 0
    THEN Ret([s EXCEPT !.num = s.num - 1], <<P(data)>>, "None")
    ELSE Ret(s, <<>>, "None")

Take_handle(s, data) ==
    IF data # END /\ s.num > 0
    THEN Ret([s EXCEPT !.num = s.num - 1], <<P(data)>>,
             IF s.num - 1 <= 0 THEN "END" ELSE "None")
    ELSE Ret(s, <<>>, "None")

Last_handle(s, data) ==
    IF data # END THEN Ret([s EXCEPT !.prev = Val(data)], <<>>, "None")
    ELSE Ret([s EXCEPT !.prev = NOTSET],
             IF s.prev # NOTSET THEN <<P(Item(s.prev))>> ELSE <<>>,
             "None")

\* Mutant: the stop flag is not consulted, every item that does not match passes.
Until_handle_resumes(s, data) ==
    IF data # END
    THEN LET stop == By(s.by, Val(data))
         IN Ret([s EXCEPT !.stop = stop],
                IF ~stop THEN <<PRaw(data)>> ELSE <<>>, "None")
    ELSE Ret(s, <<>>, "None")

Until_handle(s, data) ==
    IF data # END /\ ~s.stop
    THEN LET stop == By(s.by, Val(data))
         IN Ret([s EXCEPT !.stop = stop],
                IF ~stop THEN <<PRaw(data)>> ELSE <<>>, "None")
    ELSE Ret(s, <<>>, "None")

(***************************************************************************)
(* The default handle_stream (BaseTask, not among the sources): it awaits  *)
(* one item, dispatches it to handle through self.handler, and goes on     *)
(* until END was read or handle returned END; then it forwards END.        *)
(* Every handle of operators.py tests the value it reads for END, so the   *)
(* END that was read is dispatched like any other value before the loop    *)
(* ends; a handle that returns END (Take) ends the loop without a further  *)
(* read.  r is what handle did with data, the value read from the only     *)
(* queue.                                                                  *)
(***************************************************************************)
BaseTask_handle_stream(r, data) ==
    /\ pc = "run"
    /\ rd' = Advance(1)
    /\ self' = r.self
    /\ IF r.err # ""
       THEN /\ pc' = "failed"
            /\ err' = r.err
            /\ out' = PutAll(out, Through(r.puts))
       ELSE /\ err' = err
            /\ IF data = END \/ r.ret = "END"
               THEN /\ out' = PutAll(out, Through(r.puts) \o <<PRaw(END)>>)
                    /\ pc' = "done"
               ELSE /\ out' = PutAll(out, Through(r.puts))
                    /\ pc' = pc
    /\ UNCHANGED <<op, context, com, queues, fails, isConst, frame, tasks>>

GetItem_stage ==
    /\ op \in {"GetItem", "Select", "Get"}
    /\ BaseTask_handle_stream(GetItem_handle(self, Get(1)), Get(1))

Branch_stage ==
    /\ op = "Branch"
    /\ BaseTask_handle_stream(Branch_handle(self, Get(1)), Get(1))

Subscribe_stage ==
    /\ op \in {"Subscribe", "View"}
    /\ BaseTask_handle_stream(Subscribe_handle(self, Get(1)), Get(1))

Map_stage ==
    /\ op = "Map"
    /\ BaseTask_handle_stream(Map_handle(self, Get(1)), Get(1))

Reduce_stage ==
    /\ op \in {"Reduce", "Min", "Max", "Sum", "Count"}
    /\ BaseTask_handle_stream(Reduce_handle(self, Get(1)), Get(1))

Flatten_stage ==
    /\ op = "Flatten"
    /\ BaseTask_handle_stream(Flatten_handle(self, Get(1)), Get(1))

Group_stage ==
    /\ op = "Group"
    /\ BaseTask_handle_stream(Group_handle(self, Get(1)), Get(1))

Take_stage ==
    /\ op \in {"Take", "First", "Constant"}
    /\ BaseTask_handle_stream(Take_handle(self, Get(1)), Get(1))

Last_stage ==
    /\ op = "Last"
    /\ BaseTask_handle_stream(Last_handle(self, Get(1)), Get(1))

Until_stage ==
    /\ op = "Until"
    /\ BaseTask_handle_stream(Until_handle(self, Get(1)), Get(1))

(***************************************************************************)
(* The operators that override handle_stream.  One action is one turn of   *)
(* the async for loop; the turn that reads END also runs the code after    *)
(* the loop.  self.handler reaches the inherited BaseTask.handle.          *)
(***************************************************************************)
Handler(s, data) == Through(BaseTask_handle(s, data).puts)

\* for q in consumer.queues
QueueOrder == [i \in 1..Len(queues) |-> i]

\* One turn of Concat's loops over the queues taken in the given order, with
\* after_loops the puts of the code that follows them.
Concat_body(order, after_loops) ==
    /\ op = "Concat"
    /\ pc = "run"
    /\ LET q == order[frame.q]
           data == Get(q)
       IN /\ rd' = Advance(q)
          /\ IF data # END
             THEN /\ out' = PutAll(out, Handler(self, data))
                  /\ UNCHANGED <<frame, pc>>
             ELSE IF frame.q < Len(order)
                  THEN /\ frame' = [frame EXCEPT !.q = @ + 1]
                       /\ UNCHANGED <<out, pc>>
                  ELSE /\ out' = PutAll(out, after_loops)
                       /\ pc' = "done"
                       /\ UNCHANGED frame
    /\ UNCHANGED <<op, context, com, self, queues, fails, isConst, err, tasks>>

\* Mutants: the END after the loops forgotten; the queues taken last to first.
Concat_without_END == Concat_body(QueueOrder, <<>>)
Concat_reversed ==
    Concat_body([i \in 1..Len(queues) |-> Len(queues) + 1 - i], Handler(self, END))

Concat_handle_stream == Concat_body(QueueOrder, Handler(self, END))

Collect_handle_stream ==
    /\ op = "Collect"
    /\ pc = "run"
    /\ LET data == Get(1)
       IN /\ rd' = Advance(1)
          /\ IF data # END
             THEN /\ frame' = [frame EXCEPT !.values = Append(@, Val(data))]
                  /\ UNCHANGED <<out, pc>>
             ELSE /\ out' = PutAll(out, Handler(self, Item(frame.values))
                                        \o Handler(self, END))
                  /\ pc' = "done"
                  /\ UNCHANGED frame
    /\ UNCHANGED <<op, context, com, self, queues, fails, isConst, err, tasks>>

\* self.reservoir[0:cur]
Slice(seq, n) == SubSeq(seq, 1, MinOf(n, Len(seq)))

\* Mutant: cur <= num for cur < num.
Sample_store_one_more(s, cur, x, i) ==
    IF cur <= s.num THEN [s EXCEPT !.reservoir = Append(@, x)]
    ELSE IF i < s.num THEN [s EXCEPT !.reservoir[i + 1] = x]
    ELSE s

\* Lines 95-100: the item is appended while cur < num; afterwards it replaces
\* slot i, the value random.randint(0, cur) drew, when i < num.
Sample_store(s, cur, x, i) ==
    IF cur < s.num THEN [s EXCEPT !.reservoir = Append(@, x)]
    ELSE IF i < s.num THEN [s EXCEPT !.reservoir[i + 1] = x]
    ELSE s

Sample_handle_stream ==
    /\ op = "Sample"
    /\ pc = "run"
    /\ LET data == Get(1)
           cur == frame.cur
       IN /\ rd' = Advance(1)
          /\ IF data # END
             THEN /\ \E i \in 0..cur : self' = Sample_store(self, cur, Val(data), i)
                  /\ frame' = [frame EXCEPT !.cur = cur + 1]
                  /\ UNCHANGED <<out, pc>>
             ELSE /\ out' = PutAll(out,
                                FlatSeq([i \in 1..Len(Slice(self.reservoir, cur)) |->
                                            Handler(self, Item(self.reservoir[i]))])
                                \o Handler(self, END))
                  /\ pc' = "done"
                  /\ UNCHANGED <<self, frame>>
    /\ UNCHANGED <<op, context, com, queues, fails, isConst, err, tasks>>

\* Mutant: Unique.filter forgets to add the value to its cache.
Filter_keep_cache_not_filled(o, s, x) ==
    CASE o = "Unique" -> [keep |-> x \notin s.cache, self |-> s]
      [] o = "Distinct" ->
            IF x = s.prev THEN [keep |-> FALSE, self |-> s]
            ELSE [keep |-> TRUE, self |-> [s EXCEPT !.prev = x]]
      [] OTHER -> [keep |-> By(s.by, x), self |-> s]

\* Mutant: Distinct.filter remembers a dropped value only, never a kept one.
Filter_keep_prev_not_updated(o, s, x) ==
    CASE o = "Unique" ->
            IF x \in s.cache THEN [keep |-> FALSE, self |-> s]
            ELSE [keep |-> TRUE, self |-> [s EXCEPT !.cache = @ \cup {x}]]
      [] o = "Distinct" -> [keep |-> x # s.prev, self |-> s]
      [] OTHER -> [keep |-> By(s.by, x), self |-> s]

\* self.by(data) if callable(self.by) else data == self.by, with the fields
\* the call leaves behind: Unique and Distinct install their filter method as by.
Filter_keep(o, s, x) ==
    CASE o = "Unique" ->
            IF x \in s.cache THEN [keep |-> FALSE, self |-> s]
            ELSE [keep |-> TRUE, self |-> [s EXCEPT !.cache = @ \cup {x}]]
      [] o = "Distinct" ->
            IF x = s.prev THEN [keep |-> FALSE, self |-> s]
            ELSE [keep |-> TRUE, self |-> [s EXCEPT !.prev = x]]
      [] OTHER -> [keep |-> By(s.by, x), self |-> s]

Filter_handle_stream ==
    /\ op \in {"Filter", "Unique", "Distinct"}
    /\ pc = "run"
    /\ LET data == Get(1)
       IN /\ rd' = Advance(1)
          /\ IF data # END
             THEN LET k == Filter_keep(op, self, Val(data))
                  IN /\ self' = k.self
                     /\ out' = IF k.keep THEN PutAll(out, Handler(self, data)) ELSE out
                     /\ pc' = pc
             ELSE /\ out' = PutAll(out, Handler(self, END))
                  /\ pc' = "done"
                  /\ self' = self
    /\ UNCHANGED <<op, context, com, queues, fails, isConst, err, frame, tasks>>

(***************************************************************************)
(* Mix.handle_stream: one pump_queue task per queue, run concurrently and  *)
(* awaited with asyncio.wait(return_when=FIRST_EXCEPTION).  A pump is      *)
(* suspended either in its read (state "read") or, with an item in hand,   *)
(* in its put (state "put").                                               *)
(***************************************************************************)
QueueIds == 1..Len(queues)

NoTasks == [state |-> <<>>, hand |-> <<>>]

\* Mutant: all() for any().
has_constant_ch_all == \A q \in QueueIds : isConst[q]

has_constant_ch == \E q \in QueueIds : isConst[q]

\* Lines 40-49: the constant-channel check, then the pumps are started.
Mix_start ==
    /\ op = "Mix"
    /\ pc = "start"
    /\ IF has_constant_ch
       THEN /\ pc' = "failed"
            /\ err' = "ValueError"
            /\ UNCHANGED tasks
       ELSE /\ pc' = "wait"
            /\ tasks' = [state |-> [q \in QueueIds |-> "read"],
                         hand |-> [q \in QueueIds |-> END]]
            /\ UNCHANGED err
    /\ UNCHANGED <<op, context, com, self, queues, rd, fails, isConst, out, frame>>

\* async for data in q: the pump reads; the read delivers an item, delivers END
\* (the pump returns) or raises (the pump ends with that exception).
pump_queue_read(q) ==
    /\ op = "Mix"
    /\ q \in DOMAIN tasks.state
    /\ tasks.state[q] = "read"
    /\ IF rd[q] = Len(queues[q]) /\ fails[q]
       THEN /\ tasks' = [tasks EXCEPT !.state[q] = "failed"]
            /\ UNCHANGED rd
       ELSE /\ rd' = Advance(q)
            /\ IF Get(q) = END
               THEN tasks' = [tasks EXCEPT !.state[q] = "done"]
               ELSE tasks' = [tasks EXCEPT !.state[q] = "put", !.hand[q] = Get(q)]
    /\ UNCHANGED <<op, context, com, self, queues, fails, isConst, out, pc, err, frame>>

\* Mutant: the pump reads on before the item it holds was put, and puts the
\* item it held behind the one it read.
pump_queue_put_after_next(q) ==
    /\ op = "Mix"
    /\ q \in DOMAIN tasks.state
    /\ tasks.state[q] = "put"
    /\ rd' = Advance(q)
    /\ out' = PutAll(out, (IF Get(q) = END THEN <<>> ELSE Handler(self, Get(q)))
                          \o Handler(self, tasks.hand[q]))
    /\ tasks' = [tasks EXCEPT !.state[q] = IF Get(q) = END /\ ~fails[q] THEN "done"
                                           ELSE "read",
                              !.hand[q] = END]
    /\ UNCHANGED <<op, context, com, self, queues, fails, isConst, pc, err, frame>>

\* await self.handler(self, async_getter(data), self.put)
pump_queue_put(q) ==
    /\ op = "Mix"
    /\ q \in DOMAIN tasks.state
    /\ tasks.state[q] = "put"
    /\ out' = PutAll(out, Handler(self, tasks.hand[q]))
    /\ tasks' = [tasks EXCEPT !.state[q] = "read", !.hand[q] = END]
    /\ UNCHANGED <<op, context, com, self, queues, rd, fails, isConst, pc, err, frame>>

\* The tasks asyncio.wait hands back as done, and whether it returns at all:
\* once a task has raised, or once every task has finished.
Mix_done == {q \in QueueIds : tasks.state[q] \in {"done", "failed"}}
\* Mutant: return_when=FIRST_COMPLETED.
Mix_wait_first_completed == Mix_done # {}

Mix_wait_returns ==
    \/ \E q \in QueueIds : tasks.state[q] = "failed"
    \/ \A q \in QueueIds : tasks.state[q] = "done"

\* Lines 48-56: wait returns; the first task of the set done that holds an
\* exception has it re-raised (a set: any of them may come first); with no
\* exception END is handled.  The tasks still pending are left as they are.
Mix_finish ==
    /\ op = "Mix"
    /\ pc = "wait"
    /\ Mix_wait_returns
    /\ IF \E q \in Mix_done : tasks.state[q] = "failed"
       THEN /\ \E q \in Mix_done :
                 /\ tasks.state[q] = "failed"
                 /\ frame' = [frame EXCEPT !.raised = q]
            /\ pc' = "failed"
            /\ err' = "Exception"
            /\ UNCHANGED out
       ELSE /\ out' = PutAll(out, Handler(self, END))
            /\ pc' = "done"
            /\ UNCHANGED <<err, frame>>
    /\ UNCHANGED <<op, context, com, self, queues, rd, fails, isConst, tasks>>

(***************************************************************************)
(* Construction: the operator, its arguments, its input.                   *)
(***************************************************************************)
Ops == {"Mix", "Concat", "Collect", "Sample", "Filter", "Unique", "Distinct",
        "GetItem", "Select", "Get", "Branch", "Subscribe", "View", "Map",
        "Reduce", "Min", "Max", "Sum", "Count", "Flatten", "Group",
        "Take", "First", "Constant", "Last", "Until"}

MultiSource == {"Mix", "Concat"}

\* The stages followed from their construction on, under either configuration
\* (the others are built and started with no interceptor configured).
Intercepted == {"Map", "Until"}

\* Flatten.__init__(max_level: int = 1): self.max_level = max_level or 999999999999.
\* The model's nesting never reaches MAX_LEVEL_UNBOUNDED, which stands for that number.
MAX_LEVEL_UNBOUNDED == 999999
FlattenArgs == {[given |-> FALSE, v |-> 0]} \cup {[given |-> TRUE, v |-> m] : m \in 0..MaxLevel}
Flatten_init(arg) ==
    LET max_level == IF arg.given THEN arg.v ELSE 1
    IN [arg |-> arg,
        max_level |-> IF max_level = 0 THEN MAX_LEVEL_UNBOUNDED ELSE max_level]

\* __init__ of each operator class, over the constructor arguments tried.
SelfInit(o) ==
    CASE o = "Sample" -> {[num |-> n, reservoir |-> <<>>] : n \in 1..MaxLen}
      [] o = "Filter" -> {[by |-> b] : b \in Bys}
      [] o = "Unique" -> {[cache |-> {}]}
      [] o = "Distinct" -> {[prev |-> NOTSET]}
      [] o \in {"GetItem", "Select", "Get"} -> {[key |-> 0, default |-> 0]}
      [] o = "Branch" -> {[num_out |-> n, fn |-> f] :
                            n \in 2..MaxOut, f \in {"mod2", "id", "minus2"}}
      [] o = "Subscribe" -> {[on_next |-> a, on_complete |-> b, calls |-> <<>>] :
                                a \in BOOLEAN, b \in BOOLEAN}
      [] o = "View" -> {[on_next |-> TRUE, on_complete |-> FALSE, calls |-> <<>>]}
      [] o = "Map" -> {[fn |-> "double"]}
      [] o = "Reduce" -> {[fn |-> f, result |-> r, prev_result |-> NOTSET] :
                             f \in {"second", "add"}, r \in {NOTSET, 0}}
      [] o = "Min" -> {[fn |-> "min", result |-> POS_INF, prev_result |-> NOTSET]}
      [] o = "Max" -> {[fn |-> "max", result |-> NEG_INF, prev_result |-> NOTSET]}
      [] o = "Sum" -> {[fn |-> "sum", result |-> 0, prev_result |-> NOTSET]}
      [] o = "Count" -> {[fn |-> "count", result |-> 0, prev_result |-> NOTSET]}
      [] o = "Flatten" -> {Flatten_init(a) : a \in FlattenArgs}
      [] o = "Group" -> {[key_fn |-> f, group_size |-> n, keep_rest |-> k, groups |-> <<>>] :
                            f \in {"mod2", "id"}, n \in {2, POS_INF}, k \in BOOLEAN}
      [] o = "Take" -> {[num |-> n] : n \in 1..MaxLen}
      [] o \in {"First", "Constant"} -> {[num |-> 1]}
      [] o = "Last" -> {[prev |-> NOTSET]}
      [] o = "Until" -> {[by |-> b, stop |-> FALSE] : b \in Bys}
      [] OTHER -> {[none |-> TRUE]}

NumOut(o, s) == IF o = "Branch" THEN s.num_out ELSE 1

Streams == SeqsUpTo(Payloads, MaxLen)

\* The queues of the stage's consumer: one for a single-input operator, MaxSrc
\* for Mix and Concat, holding at most MaxLen items together.
Inputs(o) ==
    IF o \in MultiSource
    THEN {qs \in [1..MaxSrc -> Streams] : SumLens(qs, MaxSrc) <= MaxLen}
    ELSE IF o = "Flatten"
    THEN {<<s>> : s \in UNION {NestedSeqsOf(n) : n \in 0..MaxNodes}}
    ELSE {<<s>> : s \in Streams}

Init ==
    /\ op \in Ops
    /\ self \in SelfInit(op)
    /\ queues \in Inputs(op)
    /\ rd = [q \in DOMAIN queues |-> 0]
    /\ fails \in [DOMAIN queues -> BOOLEAN]
    /\ isConst \in [DOMAIN queues -> BOOLEAN]
    \* only Mix looks at the channel kind or survives a failing read; a constant
    \* channel replays exactly one value
    /\ op # "Mix" => \A q \in DOMAIN queues : ~fails[q] /\ ~isConst[q]
    /\ \A q \in DOMAIN queues : isConst[q] => Len(queues[q]) = 1 /\ ~fails[q]
    /\ out = [e \in 1..NumOut(op, self) |-> <<>>]
    /\ pc = IF op = "Mix" THEN "start" ELSE IF op \in Intercepted THEN "built" ELSE "run"
    /\ err = ""
    /\ frame = [q |-> 1, cur |-> 0, values |-> <<>>, raised |-> 0]
    /\ tasks = NoTasks
    /\ context \in {Configured(c) :
                       c \in IF op \in Intercepted THEN Configs ELSE {NoInterceptors}}
    /\ com = Construct(context)

(***************************************************************************)
(* Between construction and start (test_middleware.py, lines 39-41) the    *)
(* configuration the stage was built under is cleared or set anew, once;   *)
(* start runs the stage under its execution interceptors (ClientProvider   *)
(* sets context['client']).                                                *)
(***************************************************************************)
\* The configuration is still the one the stage was built under.
AsBuilt == Construct(context) = com

context_clear ==
    /\ pc = "built"
    /\ AsBuilt
    /\ context # Configured(NoInterceptors)
    /\ context' = Configured(NoInterceptors)
    /\ UNCHANGED <<op, com, self, queues, rd, fails, isConst, out, pc, err, frame, tasks>>

context_update(c) ==
    /\ pc = "built"
    /\ AsBuilt
    /\ context # Configured(c)
    /\ context' = [context EXCEPT !.builders = c.builders,
                                  !.executors = c.executors,
                                  !.handlers = c.handlers]
    /\ UNCHANGED <<op, com, self, queues, rd, fails, isConst, out, pc, err, frame, tasks>>

BaseTask_start ==
    /\ pc = "built"
    /\ pc' = "run"
    /\ context' = IF "ClientProvider" \in Range(com.executors)
                  THEN [context EXCEPT !.client = TRUE]
                  ELSE context
    /\ UNCHANGED <<op, com, self, queues, rd, fails, isConst, out, err, frame, tasks>>

Next ==
    \/ GetItem_stage
    \/ Branch_stage
    \/ Subscribe_stage
    \/ Map_stage
    \/ Reduce_stage
    \/ Flatten_stage
    \/ Group_stage
    \/ Take_stage
    \/ Last_stage
    \/ Until_stage
    \/ Concat_handle_stream
    \/ Collect_handle_stream
    \/ Sample_handle_stream
    \/ Filter_handle_stream
    \/ Mix_start
    \/ \E q \in QueueIds : pump_queue_read(q)
    \/ \E q \in QueueIds : pump_queue_put(q)
    \/ Mix_finish
    \/ context_clear
    \/ \E c \in Configs : context_update(c)
    \/ BaseTask_start

Spec == Init /\ [][Next]_vars

\* The scheduler keeps running whatever can run.
FairSpec == Spec /\ WF_vars(Next)

(***************************************************************************)
(* What an output edge shows.                                              *)
(***************************************************************************)
\* The payloads of the real items put on an edge, in order.
Items(edge) ==
    LET real == SelectSeq(edge, LAMBDA d : d # END)
    IN [i \in 1..Len(real) |-> Val(real[i])]

EndCount(edge) == Len(SelectSeq(edge, LAMBDA d : d = END))

\* The edge was closed properly: one END, after everything else.
EndsOnce(edge) ==
    /\ EndCount(edge) = 1
    /\ edge[Len(edge)] = END

AllEdgesEnded == \A e \in DOMAIN out : EndCount(out[e]) >= 1

\* The stage read END from its only queue.
ReadEND == rd[1] = Len(queues[1]) + 1

(***************************************************************************)
(* C1.  Every stage that runs to completion on finite, END-terminated      *)
(* input eventually has END on every one of its output edges; a stage that *)
(* raised did not run to completion.                                       *)
(***************************************************************************)
C1_EveryEdgeEventuallyEnds == <>(pc = "failed" \/ (pc = "done" /\ AllEdgesEnded))

\* A Reduce stage, whose handle puts no END, ended after folding real items.
C1_Witness ==
    /\ op = "Reduce"
    /\ pc = "done"
    /\ Len(queues[1]) >= 2
    /\ ReadEND
    /\ AllEdgesEnded

(***************************************************************************)
(* C2.  On every output edge END is put at most once and nothing is put    *)
(* after it: END only ever stands at the end of what an edge was given.    *)
(***************************************************************************)
C2_EndAtMostOnceAndLast ==
    \A e \in DOMAIN out :
        \A i \in 1..Len(out[e]) : out[e][i] = END => i = Len(out[e])

(***************************************************************************)
(* C3.  Mix over sources that all finish without failure: when the stage   *)
(* is done its output holds, as a multiset, exactly the items of all its   *)
(* sources, followed by one END; and no END is put before that.            *)
(***************************************************************************)
C3_MixMultisetThenEND ==
    op = "Mix" =>
        /\ pc # "done" => EndCount(out[1]) = 0
        /\ pc = "done" =>
              /\ EndsOnce(out[1])
              /\ SeqToBag(Items(out[1])) = SeqToBag(FlatSeq(queues))
        /\ (\A q \in QueueIds : ~fails[q] /\ ~isConst[q]) => pc # "failed"

\* Both sources delivered items and the second source's item overtook one of
\* the first's.
C3_Witness ==
    /\ op = "Mix"
    /\ pc = "done"
    /\ Len(queues[1]) >= 2
    /\ Len(queues[2]) >= 1
    /\ queues[1][1] # queues[2][1]
    /\ Items(out[1])[1] = queues[2][1]
    /\ EndsOnce(out[1])

(***************************************************************************)
(* C4.  When a pump of Mix fails, Mix raises a pump's failure, the pumps    *)
(* still pending are cancelled, so that nothing is forwarded from any      *)
(* source once Mix has raised, and no END is put.                          *)
(***************************************************************************)
Mix_failed == op = "Mix" /\ pc = "failed" /\ err = "Exception"

C4_FailureCancelsTheRest ==
    [][/\ Mix_failed' => /\ tasks'.state[frame'.raised] = "failed"
                         /\ EndCount(out'[1]) = 0
       /\ Mix_failed => out' = out]_vars

(***************************************************************************)
(* C5.  A constant channel among Mix's sources makes Mix raise ValueError  *)
(* at once: nothing is ever read from a source or put on the output.       *)
(***************************************************************************)
C5_ConstantSourceRejected ==
    (op = "Mix" /\ \E q \in QueueIds : isConst[q]) =>
        /\ \A q \in QueueIds : rd[q] = 0
        /\ out[1] = <<>>
        /\ pc \in {"start", "failed"}
        /\ pc = "failed" => err = "ValueError"

\* Mix raised over one constant source beside an ordinary one with items.
C5_Witness ==
    /\ op = "Mix"
    /\ pc = "failed"
    /\ err = "ValueError"
    /\ isConst[1]
    /\ ~isConst[2]
    /\ Len(queues[2]) >= 1

(***************************************************************************)
(* C6.  Concat outputs the concatenation of its sources in declared order  *)
(* and then one END, and reads nothing from a source before every earlier  *)
(* source has delivered its END.                                           *)
(***************************************************************************)
IsPrefix(s, t) == Len(s) <= Len(t) /\ s = SubSeq(t, 1, Len(s))

C6_ConcatInDeclaredOrder ==
    op = "Concat" =>
        /\ IsPrefix(Items(out[1]), FlatSeq(queues))
        /\ \A i, j \in QueueIds :
              (i < j /\ rd[j] > 0) => rd[i] = Len(queues[i]) + 1
        /\ pc # "done" => EndCount(out[1]) = 0
        /\ pc = "done" =>
              /\ Items(out[1]) = FlatSeq(queues)
              /\ EndsOnce(out[1])

\* Concat is done over two sources that both held items, the first values differing.
C6_Witness ==
    /\ op = "Concat"
    /\ pc = "done"
    /\ Len(queues[1]) >= 1
    /\ Len(queues[2]) >= 1
    /\ queues[1][1] # queues[2][1]

(***************************************************************************)
(* C7.  Take(n) forwards the first min(n, length) items in arrival order   *)
(* and nothing else, and once it has forwarded the n-th item it is done    *)
(* having read exactly n times.                                            *)
(***************************************************************************)
C7_TakeFirstNThenStops ==
    op \in {"Take", "First", "Constant"} =>
        LET taken == Items(out[1])
            n == self.num + Len(taken)
        IN /\ IsPrefix(taken, queues[1])
           /\ Len(taken) <= n
           /\ Len(taken) = n => (pc = "done" /\ rd[1] = n)
           /\ pc = "done" => Len(taken) = MinOf(n, Len(queues[1]))

\* Take(2) is done with items of its source left unread.
C7_Witness ==
    /\ op = "Take"
    /\ pc = "done"
    /\ Len(Items(out[1])) = 2
    /\ rd[1] = 2
    /\ Len(queues[1]) > 2

(***************************************************************************)
(* C8.  Reduce emits nothing before END; at END it has emitted exactly one *)
(* item if the input held at least one item (one item included), and none  *)
(* if the input was empty: whatever the fold function and the initial      *)
(* accumulator, the default unset one included.                            *)
(***************************************************************************)
C8_ReduceEmitsOnceAtEND ==
    op = "Reduce" =>
        /\ pc = "run" => out[1] = <<>>
        /\ pc = "done" =>
              Len(Items(out[1])) = IF Len(queues[1]) >= 1 THEN 1 ELSE 0

(***************************************************************************)
(* C9.  Sum never raises; over a non-empty stream of numbers it emits one  *)
(* item, their arithmetic sum, and over an empty stream it emits nothing.  *)
(***************************************************************************)
C9_SumEmitsTheSum ==
    op = "Sum" =>
        /\ pc # "failed"
        /\ pc = "done" =>
              Items(out[1]) = IF Len(queues[1]) >= 1 THEN <<SeqSum(queues[1])>>
                              ELSE <<>>

(***************************************************************************)
(* C10.  Sample(k) on n items puts nothing until it has read END; then,    *)
(* whatever the random draws were, it has put min(k, n) items, each the    *)
(* item of its own input position, and one END after them.                 *)
(***************************************************************************)
C10_SampleSizeAndOrigin ==
    op = "Sample" =>
        /\ pc = "run" => out[1] = <<>>
        /\ pc = "done" =>
              /\ EndsOnce(out[1])
              /\ Len(Items(out[1])) = MinOf(self.num, Len(queues[1]))
              /\ SeqToBag(Items(out[1])) \sqsubseteq SeqToBag(queues[1])

\* A draw replaced a slot: the sample of a longer input is not its first k items.
C10_Witness ==
    /\ op = "Sample"
    /\ pc = "done"
    /\ self.num < Len(queues[1])
    /\ Items(out[1]) # SubSeq(queues[1], 1, self.num)

(***************************************************************************)
(* C11.  Group(by, size, keepRest): every group emitted before END holds   *)
(* exactly size items; every emitted group holds items of its own key, in  *)
(* arrival order, and no input item is emitted in two groups; at END with  *)
(* keepRest every non-empty partial bucket has been flushed once, so every *)
(* input item is in exactly one group; without keepRest only full groups   *)
(* are ever emitted.                                                       *)
(***************************************************************************)
\* The items of the groups emitted under key k, one group after the other.
GroupedUnder(emitted, k) ==
    LET of_k == SelectSeq(emitted, LAMBDA g : g[1] = k)
    IN FlatSeq([i \in 1..Len(of_k) |-> of_k[i][2]])

\* The input items whose key is k, in arrival order.
InputUnder(k) == SelectSeq(queues[1], LAMBDA x : Key(self.key_fn, x) = k)

GroupKeys == {Key(self.key_fn, x) : x \in Payloads}

C11_GroupsFullOrFlushedOnce ==
    op = "Group" =>
        LET emitted == Items(out[1])
        IN /\ \A i \in 1..Len(emitted) :
                 /\ emitted[i][1] \in GroupKeys
                 /\ emitted[i][2] # <<>>
                 /\ Len(emitted[i][2]) <= self.group_size
                 /\ (~ReadEND \/ ~self.keep_rest) =>
                        Len(emitted[i][2]) = self.group_size
           /\ \A k \in GroupKeys :
                 /\ IsPrefix(GroupedUnder(emitted, k), InputUnder(k))
                 /\ (pc = "done" /\ self.keep_rest) =>
                        GroupedUnder(emitted, k) = InputUnder(k)
                 /\ (pc = "done" /\ ~self.keep_rest) =>
                        Len(GroupedUnder(emitted, k)) =
                           Len(InputUnder(k)) - (Len(InputUnder(k)) % self.group_size)

\* A full group was emitted during the run and a partial bucket flushed at END.
C11_Witness ==
    /\ op = "Group"
    /\ pc = "done"
    /\ self.keep_rest
    /\ self.group_size = 2
    /\ Len(Items(out[1])) = 2
    /\ Len(Items(out[1])[1][2]) = 2
    /\ Len(Items(out[1])[2][2]) = 1

(***************************************************************************)
(* C12.  Unique outputs, in arrival order, exactly the first occurrence of *)
(* each distinct value of its input, and one END after them.               *)
(***************************************************************************)
\* What the stage has taken from its only queue so far.
Consumed == SubSeq(queues[1], 1, MinOf(rd[1], Len(queues[1])))

\* The members of s that no earlier member equals, in order.
FirstOccurrences(s) ==
    LET at == SelectSeq([i \in 1..Len(s) |-> i],
                        LAMBDA i : \A j \in 1..(i - 1) : s[j] # s[i])
    IN [k \in 1..Len(at) |-> s[at[k]]]

C12_UniqueFirstOccurrences ==
    op = "Unique" =>
        /\ Items(out[1]) = FirstOccurrences(Consumed)
        /\ pc # "done" => EndCount(out[1]) = 0
        /\ pc = "done" => EndsOnce(out[1]) /\ Consumed = queues[1]

\* A value came back after another one and was dropped: [a, b, a] gave [a, b].
C12_Witness ==
    /\ op = "Unique"
    /\ pc = "done"
    /\ Len(queues[1]) = 3
    /\ queues[1][1] = queues[1][3]
    /\ queues[1][1] # queues[1][2]
    /\ Items(out[1]) = <<queues[1][1], queues[1][2]>>

(***************************************************************************)
(* C13.  Distinct drops an item exactly when it equals the input item just *)
(* before it: the first item is kept, no two adjacent outputs are equal,   *)
(* and a value that comes back after another one is emitted again.         *)
(***************************************************************************)
\* The members of s that differ from the member just before them, in order.
RunStarts(s) ==
    LET at == SelectSeq([i \in 1..Len(s) |-> i],
                        LAMBDA i : i = 1 \/ s[i] # s[i - 1])
    IN [k \in 1..Len(at) |-> s[at[k]]]

C13_DistinctDropsAdjacentRepeats ==
    op = "Distinct" =>
        /\ Items(out[1]) = RunStarts(Consumed)
        /\ \A i \in 2..Len(Items(out[1])) : Items(out[1])[i] # Items(out[1])[i - 1]
        /\ pc # "done" => EndCount(out[1]) = 0
        /\ pc = "done" => EndsOnce(out[1]) /\ Consumed = queues[1]

\* A value came back after another one and was emitted again: [a, b, a].
C13_Witness ==
    /\ op = "Distinct"
    /\ pc = "done"
    /\ Len(queues[1]) = 3
    /\ queues[1][1] = queues[1][3]
    /\ queues[1][1] # queues[1][2]
    /\ Items(out[1]) = queues[1]

(***************************************************************************)
(* C14.  Until forwards, in order, exactly the items that precede the      *)
(* first item matching its stop condition: the matching item and every     *)
(* item after it are not forwarded, and with no match all are forwarded.   *)
(***************************************************************************)
BeforeFirstMatch(s) ==
    LET matches == {i \in 1..Len(s) : By(self.by, s[i])}
    IN IF matches = {} THEN s
       ELSE SubSeq(s, 1, (CHOOSE i \in matches : \A j \in matches : i <= j) - 1)

C14_UntilForwardsBeforeFirstMatch ==
    op = "Until" =>
        /\ Items(out[1]) = BeforeFirstMatch(Consumed)
        /\ pc = "done" => Items(out[1]) = BeforeFirstMatch(queues[1])

\* The second of three items matched; the third, which does not, was held back.
C14_Witness ==
    /\ op = "Until"
    /\ pc = "done"
    /\ Len(queues[1]) = 3
    /\ ~By(self.by, queues[1][1])
    /\ By(self.by, queues[1][2])
    /\ ~By(self.by, queues[1][3])
    /\ Items(out[1]) = <<queues[1][1]>>

(***************************************************************************)
(* C15.  Branch(n, by) puts each real item on exactly one output, the one  *)
(* of index by(item); when by(item) is no valid output index (not one of   *)
(* 0..n-1) the stage raises and the item is put on no output; END reaches  *)
(* all n outputs.                                                          *)
(***************************************************************************)
ValidIndex(x) == Key(self.fn, x) \in 0..(self.num_out - 1)

\* The items in front of the first one that by sends to no valid index.
BeforeFirstInvalid(s) ==
    LET bad == {i \in 1..Len(s) : ~ValidIndex(s[i])}
    IN IF bad = {} THEN s
       ELSE SubSeq(s, 1, (CHOOSE i \in bad : \A j \in bad : i <= j) - 1)

C15_BranchRoutesOrRaises ==
    op = "Branch" =>
        /\ \A e \in DOMAIN out :
              Items(out[e]) = SelectSeq(BeforeFirstInvalid(Consumed),
                                        LAMBDA x : Key(self.fn, x) = e - 1)
        /\ BeforeFirstInvalid(Consumed) # Consumed =>
              pc = "failed" /\ err = "RuntimeError"
        /\ pc = "done" => \A e \in DOMAIN out : EndCount(out[e]) >= 1

(***************************************************************************)
(* C16.  The interceptor lists are read once, when the stage is built: the *)
(* stage holds the lists configured at its construction, no later clearing *)
(* or change of the configuration alters them, and the stage runs with     *)
(* exactly them: its build interceptor ran at construction, its execution  *)
(* interceptor runs at start, its item interceptor adapts every put of its *)
(* handle.                                                                 *)
(***************************************************************************)
Mapped(s) == [i \in 1..Len(s) |-> MapFn(self.fn, s[i])]

CallsDue ==
    (IF self.on_next THEN [i \in 1..Len(Consumed) |-> <<"on_next", Consumed[i]>>]
     ELSE <<>>)
    \o (IF ReadEND /\ self.on_complete THEN << <<"on_complete">> >> ELSE <<>>)

C17_SubscribePassesThroughAndCalls ==
    op = "Subscribe" =>
        /\ Items(out[1]) = Consumed
        /\ self.calls = CallsDue
        /\ pc # "done" => EndCount(out[1]) = 0
        /\ pc = "done" => EndsOnce(out[1])

(***************************************************************************)
(* C18.  What Flatten emits for the items it has read, by the argument it  *)
(* was constructed with.                                                   *)
(***************************************************************************)
\* The leaves of a nested payload, left to right (a string is a leaf).
RECURSIVE Leaves(_)
Leaves(x) ==
    IF x.kind = "seq" THEN FlatSeq([i \in 1..Len(x.items) |-> Leaves(x.items[i])])
    ELSE <<x>>

\* A nested payload with its m outermost levels of sequences opened.
RECURSIVE Expand(_, _)
Expand(x, m) ==
    IF m = 0 \/ x.kind # "seq" THEN <<x>>
    ELSE FlatSeq([i \in 1..Len(x.items) |-> Expand(x.items[i], m - 1)])

\* C18 as claimed: with max_level unset (no argument) or zero every leaf is
\* emitted, whatever its depth, left to right; with max_level = m >= 1 at most
\* m levels are opened and what lies deeper is emitted as it is.
C18_FlattenUnsetOrZeroUnbounded ==
    op = "Flatten" =>
        Items(out[1]) =
            FlatSeq([i \in 1..Len(Consumed) |->
                        IF ~self.arg.given \/ self.arg.v = 0 THEN Leaves(Consumed[i])
                        ELSE Expand(Consumed[i], self.arg.v)])

\* C18 amended: constructed with no argument Flatten opens one level only
\* (the default max_level is 1); with max_level zero every leaf is emitted,
\* whatever its depth, left to right; with max_level = m >= 1 at most m levels
\* are opened and what lies deeper is emitted as it is.
C18_FlattenDefaultOneLevel ==
    op = "Flatten" =>
        Items(out[1]) =
            FlatSeq([i \in 1..Len(Consumed) |->
                        IF ~self.arg.given THEN Expand(Consumed[i], 1)
                        ELSE IF self.arg.v = 0 THEN Leaves(Consumed[i])
                        ELSE Expand(Consumed[i], self.arg.v)])

\* Flatten() was given [[x]] and emitted [x], not the leaf x.
C18_Witness ==
    /\ op = "Flatten"
    /\ ~self.arg.given
    /\ pc = "done"
    /\ Len(queues[1]) = 1
    /\ queues[1][1].kind = "seq"
    /\ Len(queues[1][1].items) = 1
    /\ queues[1][1].items[1].kind = "seq"
    /\ Len(queues[1][1].items[1].items) = 1
    /\ Items(out[1]) = <<queues[1][1].items[1]>>

(***************************************************************************)
(* C19.  Under an item interceptor that substitutes an adapted put, every  *)
(* item a handle emits reaches the output only through the adapted put:    *)
(* with the test's Filter in place no item that filter_put rejects is ever *)
(* on an output edge.                                                      *)
(***************************************************************************)
C19_EveryItemThroughAdaptedPut ==
    "Filter" \in Range(com.handlers) =>
        \A e \in DOMAIN out :
            \A i \in 1..Len(out[e]) : filter_put(P(out[e][i]))

(***************************************************************************)
(* C20.  Under every interleaving of Mix's pumps the items of one source   *)
(* are on the output in the order the source delivered them: a pump holds  *)
(* at most one item, and what is on the output is a merge of what each     *)
(* pump has read and no longer holds.                                      *)
(***************************************************************************)
\* The items pump q has read from its source, and those of them it has put.
Drained(q) == SubSeq(queues[q], 1, MinOf(rd[q], Len(queues[q])))
InFlight(q) == IF q \in DOMAIN tasks.state /\ tasks.state[q] = "put" THEN 1 ELSE 0
Forwarded(q) == SubSeq(Drained(q), 1, Len(Drained(q)) - InFlight(q))

\* o interleaves the sequences rest[q], each kept in its own order.
RECURSIVE IsMerge(_, _)
IsMerge(o, rest) ==
    IF o = <<>> THEN \A q \in DOMAIN rest : rest[q] = <<>>
    ELSE \E q \in DOMAIN rest :
            /\ rest[q] # <<>>
            /\ Head(rest[q]) = Head(o)
            /\ IsMerge(Tail(o), [rest EXCEPT ![q] = Tail(@)])

C20_MixKeepsEachSourceOrder ==
    op = "Mix" =>
        /\ \A q \in QueueIds :
              InFlight(q) = 1 =>
                 /\ Drained(q) # <<>>
                 /\ tasks.hand[q] = Item(Drained(q)[Len(Drained(q))])
        /\ IsMerge(Items(out[1]), [q \in QueueIds |-> Forwarded(q)])

\* The two different items of source 1 are on the output in their order, with
\* the item of source 2 between them.
C20_Witness ==
    /\ op = "Mix"
    /\ Len(queues[1]) = 2
    /\ Len(queues[2]) = 1
    /\ queues[1][1] # queues[1][2]
    /\ Items(out[1]) = <<queues[1][1], queues[2][1], queues[1][2]>>

=============================================================================
